---- MODULE Spec2Model ----
(***************************************************************************)
(* A model of the furigana engine: splitTextIntoChunks (utils/furiganaApi) *)
(* and FuriganaProcessor (utils/furiganaProcessor).                        *)
(*                                                                         *)
(* Strings are sequences of characters.  The characters of the model are   *)
(* written in ASCII:                                                       *)
(*   "K"  a kanji (U+6F22)            "J"  a second kanji (U+5B57)         *)
(*   " "  an ASCII space                                                   *)
(*   "{"  U+FF5B   "G"  U+6539   "P"  U+9801   "}"  U+FF5D                 *)
(* so that <<"{","G","P","}">> is the page-break marker; its two middle    *)
(* characters are kanji of the range U+4E00..U+9FAF themselves.            *)
(* Readings are written with the kana "k" and "j".  The output also        *)
(* holds the rendering tokens "<<" (U+300A), ">>" (U+300B), "<ruby>",      *)
(* "<rt>" and "</rt></ruby>", each one element of the sequence.            *)
(***************************************************************************)
EXTENDS Integers, Sequences, FiniteSets, TLC

(***************************************************************************)
(* Bounds of the model.                                                    *)
(***************************************************************************)
MaxTokens == 3

MaxWords == 2

MaxSkipLength == 2

MaxChunks == 2

MaxSplitSize == 14

\* the length budget of the splitter by lines (4000 in the source), at the
\* scale of the model's texts
MAX_CHUNK_SIZE == 2

\* the longest text of the end-to-end example, in tokens
MaxExampleTokens == 6

\* the skip length of the end-to-end example
ExampleSkipLength == 10

\* the longest surface the methods of the SkipTable are called with
MaxSurface == 2

\* the longest reading a surface is rendered with
MaxReading == 2

\* the most subwords of a word that is rendered on its own
MaxSubwords == 3

\* the longest text, in tokens, of two calls of process that run together
MaxPairTokens == 3

\* maxLength: number = 4000
DefaultMaxLength == 4000

(***************************************************************************)
(* Characters.                                                             *)
(***************************************************************************)
\* the test /[U+4E00-U+9FAF]/ over the characters of the model
IsKanji(c) == c \in {"K", "J", "G", "P"}

\* new TextEncoder().encode(char).length
utf8Len(c) == IF c \in {" ", "LF", "."} THEN 1 ELSE 3

\* the literal page-break marker
Marker == <<"{", "G", "P", "}">>

\* chunk.trim().length === 0
\* the mutant: no chunk counts as blank
IsBlankNever(s) == FALSE

IsBlank(s) == \A p \in 1..Len(s) : s[p] = " "

KanjiOf(s) == {s[p] : p \in {q \in 1..Len(s) : IsKanji(s[q])}}

KanjiCount(s) == Len(SelectSeq(s, IsKanji))

Min(a, b) == IF a < b THEN a ELSE b

(***************************************************************************)
(* String.prototype functions, on 0-based positions as in the source.      *)
(***************************************************************************)
\* s.substring(from, to)
substring(s, from, to) == SubSeq(s, from + 1, to)

RECURSIVE indexOf(_, _, _)
\* s.indexOf(sub, from): the first position >= from where sub occurs, or -1
indexOf(s, sub, from) ==
  IF from + Len(sub) > Len(s) THEN -1
  ELSE IF substring(s, from, from + Len(sub)) = sub THEN from
  ELSE indexOf(s, sub, from + 1)

\* s.includes(sub)
includes(s, sub) == indexOf(s, sub, 0) # -1

RECURSIVE split(_, _)
\* s.split(sep) for a non-empty separator
split(s, sep) ==
  LET at == indexOf(s, sep, 0)
  IN  IF at = -1 THEN <<s>>
      ELSE <<substring(s, 0, at)>> \o split(substring(s, at + Len(sep), Len(s)), sep)

RECURSIVE Flatten(_)
Flatten(ss) == IF ss = <<>> THEN <<>> ELSE Head(ss) \o Flatten(Tail(ss))

(***************************************************************************)
(* splitTextIntoChunks: the character loop with its byte budget.           *)
(***************************************************************************)
\* one iteration of the loop over the characters
splitStep(st, char, maxLength) ==
  LET charLength == utf8Len(char)
      flush == st.currentLength + charLength > maxLength
  IN  [chunks |-> IF flush THEN Append(st.chunks, st.currentChunk) ELSE st.chunks,
       currentChunk |-> Append(IF flush THEN <<>> ELSE st.currentChunk, char),
       currentLength |-> (IF flush THEN 0 ELSE st.currentLength) + charLength]

RECURSIVE splitLoop(_, _, _, _)
splitLoop(text, maxLength, i, st) ==
  IF i > Len(text)
  THEN IF st.currentChunk # <<>> THEN Append(st.chunks, st.currentChunk) ELSE st.chunks
  ELSE splitLoop(text, maxLength, i + 1, splitStep(st, text[i], maxLength))

splitTextIntoChunks(text, maxLength) ==
  splitLoop(text, maxLength, 1,
            [chunks |-> <<>>, currentChunk |-> <<>>, currentLength |-> 0])

(***************************************************************************)
(* splitTextIntoChunks of the first furiganaApi: by lines, with the page   *)
(* break as a chunk end and long lines cut at punctuation.  Lengths are    *)
(* string lengths.  "LF" is the line feed, "." stands for the punctuation  *)
(* characters of the regular expression.                                   *)
(***************************************************************************)
IsPunct(c) == c = "."

RECURSIVE segmentsFrom(_, _, _)
\* line.split(/([...])/): the pieces between the punctuation characters and
\* the punctuation characters themselves, empty pieces included
segmentsFrom(line, n, seg) ==
  IF n > Len(line) THEN <<seg>>
  ELSE IF IsPunct(line[n])
       THEN <<seg, <<line[n]>>>> \o segmentsFrom(line, n + 1, <<>>)
       ELSE segmentsFrom(line, n + 1, Append(seg, line[n]))

segments(line) == segmentsFrom(line, 1, <<>>)

\* currentChunk += (currentChunk ? LF : '') + s
joinLine(currentChunk, s) ==
  currentChunk \o (IF currentChunk # <<>> THEN <<"LF">> ELSE <<>>) \o s

\* chunks.push(currentChunk); currentChunk = s
pushThen(st, s) ==
  [chunks |-> Append(st.chunks, st.currentChunk), currentChunk |-> s]

\* a line that includes the marker
pageBreakLine(st, line) ==
  LET at == indexOf(line, Marker, 0)
      beforePageBreak == substring(line, 0, at)
      afterPageBreakText == substring(line, at + Len(Marker), Len(line))
      s1 == IF beforePageBreak = <<>> THEN st
            ELSE IF Len(st.currentChunk) + Len(beforePageBreak) > MAX_CHUNK_SIZE
                 THEN pushThen(st, beforePageBreak)
                 ELSE [st EXCEPT !.currentChunk = joinLine(@, beforePageBreak)]
      s2 == IF s1.currentChunk # <<>> THEN pushThen(s1, <<>>) ELSE s1
  IN  IF afterPageBreakText # <<>>
      THEN [s2 EXCEPT !.currentChunk = afterPageBreakText]
      ELSE s2

segmentStep(st, segment) ==
  IF Len(st.currentChunk) + Len(segment) > MAX_CHUNK_SIZE
  THEN pushThen(st, segment)
  ELSE [st EXCEPT !.currentChunk = @ \o segment]

RECURSIVE segmentLoop(_, _, _)
segmentLoop(st, segs, n) ==
  IF n > Len(segs) THEN st ELSE segmentLoop(segmentStep(st, segs[n]), segs, n + 1)

\* one iteration of the loop over the lines
lineStep(st, line) ==
  IF includes(line, Marker) THEN pageBreakLine(st, line)
  ELSE IF Len(line) > MAX_CHUNK_SIZE THEN segmentLoop(st, segments(line), 1)
  ELSE IF Len(st.currentChunk) + Len(line) > MAX_CHUNK_SIZE THEN pushThen(st, line)
  ELSE [st EXCEPT !.currentChunk = joinLine(@, line)]

RECURSIVE lineLoop(_, _, _)
lineLoop(st, lines, n) ==
  IF n > Len(lines)
  THEN IF st.currentChunk # <<>> THEN Append(st.chunks, st.currentChunk) ELSE st.chunks
  ELSE lineLoop(lineStep(st, lines[n]), lines, n + 1)

splitTextIntoChunksByLines(text) ==
  lineLoop([chunks |-> <<>>, currentChunk |-> <<>>], split(text, <<"LF">>), 1)

(***************************************************************************)
(* The Annotator's words (types: Word, SubWord).  An absent furigana is    *)
(* the empty sequence, as is an absent subword list: the source tests both *)
(* for truthiness only.                                                    *)
(***************************************************************************)
SubWord(surface, furigana) == [surface |-> surface, furigana |-> furigana]

Word(surface, furigana, subword) ==
  [surface |-> surface, furigana |-> furigana, subword |-> subword]

\* the words the Annotator of the model answers with
Vocabulary ==
  { Word(<<"K">>, <<"k">>, <<>>),
    Word(<<"J">>, <<"j">>, <<>>),
    Word(<<" ">>, <<>>, <<>>),
    Word(<<"K", "J">>, <<"k", "j">>, <<SubWord(<<"K">>, <<"k">>), SubWord(<<"J">>, <<"j">>)>>),
    Word(<<"K">>, <<"k">>, <<SubWord(<<"J">>, <<"j">>)>>) }

RECURSIVE SeqsUpTo(_, _)
\* the sequences over S of length at most n
SeqsUpTo(S, n) ==
  IF n = 0 THEN {<<>>}
  ELSE LET R == SeqsUpTo(S, n - 1) IN R \cup {Append(r, x) : r \in R, x \in S}

WordLists == SeqsUpTo(Vocabulary, MaxWords)

(***************************************************************************)
(* RubyRenderer.                                                           *)
(***************************************************************************)
applyInkBracketRuby(surface, furigana) == surface \o <<"<<">> \o furigana \o <<">>">>

applyXhtmlRuby(surface, furigana) ==
  <<"<ruby>">> \o surface \o <<"<rt>">> \o furigana \o <<"</rt></ruby>">>

RECURSIVE rubyByKanji(_, _, _, _, _)
\* the loop of the renderers of the first furiganaApi: every kanji of word
\* with the next character of furigana, as long as there is one ("[[" and
\* "]]" are the lenticular brackets)
rubyByKanji(word, furigana, n, kanjiIndex, xhtml) ==
  IF n > Len(word) THEN <<>>
  ELSE IF IsKanji(word[n]) /\ kanjiIndex < Len(furigana)
       THEN (IF xhtml
             THEN <<"<ruby>", word[n], "<rt>", furigana[kanjiIndex + 1], "</rt></ruby>">>
             ELSE <<word[n], "[[", furigana[kanjiIndex + 1], "]]">>)
            \o rubyByKanji(word, furigana, n + 1, kanjiIndex + 1, xhtml)
       ELSE <<word[n]>> \o rubyByKanji(word, furigana, n + 1, kanjiIndex, xhtml)

\* applyInkBracketRuby of the first furiganaApi
applyInkBracketRubyByKanji(word, furigana) ==
  IF furigana = <<>> \/ word = furigana THEN word
  ELSE rubyByKanji(word, furigana, 1, 0, FALSE)

\* applyXhtmlRuby of the first furiganaApi
applyXhtmlRubyByKanji(word, furigana) ==
  IF furigana = <<>> \/ word = furigana THEN word
  ELSE rubyByKanji(word, furigana, 1, 0, TRUE)

\* if (this.rubyStyle === InkBracket) ... else ...
renderRuby(rubyStyle, surface, furigana) ==
  IF rubyStyle = "InkBracket" THEN applyInkBracketRuby(surface, furigana)
  ELSE applyXhtmlRuby(surface, furigana)

(***************************************************************************)
(* RepeatSuppressor: the SkipTable is a function from the kanji that have  *)
(* an entry to their count.                                                *)
(***************************************************************************)
EmptySkip == [k \in {} |-> 0]

\* the mutant: nothing is ever suppressed
shouldSkipRubyNever(surface, skip) == FALSE

\* the mutant: an entry that is present suppresses, whatever its count
shouldSkipRubyPresent(surface, skip) ==
  \E p \in 1..Len(surface) : IsKanji(surface[p]) /\ surface[p] \in DOMAIN skip

shouldSkipRuby(surface, skip) ==
  IF ~ \E p \in 1..Len(surface) : IsKanji(surface[p]) THEN FALSE
  ELSE \E p \in 1..Len(surface) :
         /\ IsKanji(surface[p])
         /\ surface[p] \in DOMAIN skip
         /\ skip[surface[p]] > 0

\* the mutant: the skip length is added to the entry that is there
updateSkipInfoAdding(surface, skip, skipLen) ==
  IF skipLen <= 0 THEN skip
  ELSE LET ks == KanjiOf(surface)
       IN  [k \in DOMAIN skip \cup ks |->
              IF k \notin ks THEN skip[k]
              ELSE IF k \in DOMAIN skip THEN skip[k] + skipLen ELSE skipLen]

\* the mutant: only a skip length of exactly 0 disables the update
updateSkipInfoZeroOnly(surface, skip, skipLen) ==
  IF skipLen = 0 THEN skip
  ELSE [k \in DOMAIN skip \cup KanjiOf(surface) |->
          IF k \in KanjiOf(surface) THEN skipLen ELSE skip[k]]

updateSkipInfo(surface, skip, skipLen) ==
  IF skipLen <= 0 THEN skip
  ELSE LET ks == KanjiOf(surface)
       IN  [k \in DOMAIN skip \cup ks |-> IF k \in ks THEN skipLen ELSE skip[k]]

\* the mutant: every entry is lowered, those at 0 too
decrementSkipCountsBelow(skip) == [k \in DOMAIN skip |-> skip[k] - 1]

decrementSkipCounts(skip) ==
  [k \in DOMAIN skip |-> IF skip[k] > 0 THEN skip[k] - 1 ELSE skip[k]]

(***************************************************************************)
(* History of the output, kept beside the program's state: for every kanji *)
(* the number of kanji characters written to the output since the kanji    *)
(* was last rendered with a reading, -1 when it has not been since the     *)
(* last recognised page break.  The count stops at the skip length.        *)
(***************************************************************************)
AllKanji == {"K", "J", "G", "P"}

NoGloss == [k \in AllKanji |-> -1]

Cap(skipLen) == IF skipLen > 0 THEN skipLen ELSE 0

Advance(since, s, skipLen) ==
  LET n == KanjiCount(s)
  IN  IF n = 0 THEN since
      ELSE [k \in AllKanji |->
              IF since[k] = -1 THEN -1 ELSE Min(Cap(skipLen), since[k] + n)]

Glossed(since, s, skipLen) ==
  LET adv == Advance(since, s, skipLen)
      ks == KanjiOf(s)
  IN  [k \in AllKanji |-> IF k \in ks THEN 0 ELSE adv[k]]

\* a kanji of s was rendered with a reading fewer than skipLen kanji ago
InWindow(s, since, skipLen) ==
  \E k \in KanjiOf(s) : since[k] # -1 /\ since[k] < skipLen

\* a kanji of s was rendered with a reading since the call started or the last
\* marker was written
GlossedBefore(s, since) == \E k \in KanjiOf(s) : since[k] # -1

\* every positive SkipTable entry of a kanji of s stems from a reading that is
\* in the output (and not from a word that was rendered and then discarded)
EntriesFromOutput(s, skip, since) ==
  \A k \in KanjiOf(s) : (k \in DOMAIN skip /\ skip[k] > 0) => since[k] # -1

(***************************************************************************)
(* applyRubyToWord.  The accumulator w holds result, currentPos and the    *)
(* SkipTable, and the history fields since and decisions.                  *)
(***************************************************************************)
\* the mutant: a rendered reading leaves the SkipTable as it was
glossOrSkipNoUpdate(w, surface, furigana, cfg, emitted) ==
  LET shouldSkip == shouldSkipRuby(surface, w.skip)
      d == [suppressed |-> shouldSkip, emitted |-> emitted,
            inWindow |-> InWindow(surface, w.since, cfg.skipLength),
            clean |-> EntriesFromOutput(surface, w.skip, w.since),
            glossedBefore |-> GlossedBefore(surface, w.since)]
  IN  IF shouldSkip
      THEN [w EXCEPT !.result = @ \o surface,
                     !.since = Advance(@, surface, cfg.skipLength),
                     !.decisions = Append(@, d)]
      ELSE [w EXCEPT !.result = @ \o renderRuby(cfg.rubyStyle, surface, furigana),
                     !.since = Glossed(@, surface, cfg.skipLength),
                     !.decisions = Append(@, d)]

\* the suppression decision and the rendering of one surface with a reading
glossOrSkip(w, surface, furigana, cfg, emitted) ==
  LET shouldSkip == shouldSkipRuby(surface, w.skip)
      d == [suppressed |-> shouldSkip, emitted |-> emitted,
            inWindow |-> InWindow(surface, w.since, cfg.skipLength),
            clean |-> EntriesFromOutput(surface, w.skip, w.since),
            glossedBefore |-> GlossedBefore(surface, w.since)]
  IN  IF shouldSkip
      THEN [w EXCEPT !.result = @ \o surface,
                     !.since = Advance(@, surface, cfg.skipLength),
                     !.decisions = Append(@, d)]
      ELSE [w EXCEPT !.result = @ \o renderRuby(cfg.rubyStyle, surface, furigana),
                     !.skip = updateSkipInfo(surface, @, cfg.skipLength),
                     !.since = Glossed(@, surface, cfg.skipLength),
                     !.decisions = Append(@, d)]

\* one iteration of the loop over word.subword
subwordStep(w, word, subword, cfg, emitted) ==
  LET startPos == indexOf(word.surface, subword.surface, w.currentPos)
      gap == IF startPos > w.currentPos
             THEN substring(word.surface, w.currentPos, startPos) ELSE <<>>
      g == [w EXCEPT !.result = @ \o gap, !.since = Advance(@, gap, cfg.skipLength)]
      r == IF subword.furigana # <<>>
           THEN glossOrSkip(g, subword.surface, subword.furigana, cfg, emitted)
           ELSE [g EXCEPT !.result = @ \o subword.surface,
                          !.since = Advance(@, subword.surface, cfg.skipLength)]
  IN  IF startPos = -1 THEN w
      ELSE [r EXCEPT !.currentPos = startPos + Len(subword.surface)]

RECURSIVE subwordLoop(_, _, _, _, _)
subwordLoop(w, word, n, cfg, emitted) ==
  IF n > Len(word.subword)
  THEN LET rest == IF w.currentPos < Len(word.surface)
                   THEN substring(word.surface, w.currentPos, Len(word.surface))
                   ELSE <<>>
       IN  [w EXCEPT !.result = @ \o rest, !.since = Advance(@, rest, cfg.skipLength)]
  ELSE subwordLoop(subwordStep(w, word, word.subword[n], cfg, emitted),
                   word, n + 1, cfg, emitted)

\* the word rendered, with the SkipTable it leaves
applyRubyToWord(word, skip, since, cfg, emitted) ==
  LET w0 == [result |-> <<>>, currentPos |-> 0, skip |-> skip, since |-> since,
             decisions |-> <<>>]
  IN  IF word.furigana = <<>>
      THEN [w0 EXCEPT !.result = word.surface,
                      !.since = Advance(@, word.surface, cfg.skipLength)]
      ELSE IF Len(word.subword) > 0
      THEN subwordLoop(w0, word, 1, cfg, emitted)
      ELSE glossOrSkip(w0, word.surface, word.furigana, cfg, emitted)

(***************************************************************************)
(* applyRubyFromResponse.  The accumulator st holds result, currentPos and *)
(* the SkipTable, and the history fields since, decisions and steps (one   *)
(* record for every word of the response).                                 *)
(***************************************************************************)
\* the mutant: no test of startPos against -1 (the earlier variant of the loop)
alignWordUnchecked(st, word, originalText, cfg) ==
  LET startPos == indexOf(originalText, word.surface, st.currentPos)
      gap == IF startPos > st.currentPos
             THEN substring(originalText, st.currentPos, startPos) ELSE <<>>
      w == applyRubyToWord(word, st.skip, Advance(st.since, gap, cfg.skipLength),
                           cfg, startPos # -1)
      next == startPos + Len(word.surface)
  IN  [result |-> st.result \o gap \o w.result,
       currentPos |-> next,
       skip |-> w.skip,
       since |-> w.since,
       decisions |-> st.decisions \o w.decisions,
       steps |-> Append(st.steps,
                   [found |-> startPos # -1, surface |-> word.surface,
                    posBefore |-> st.currentPos, posAfter |-> next,
                    wrote |-> gap \o w.result # <<>>,
                    skipBefore |-> st.skip, skipAfter |-> w.skip])]

\* the mutant: a word that is not found still moves the cursor past its length
alignWordAdvancing(st, word, originalText, cfg) ==
  LET startPos == indexOf(originalText, word.surface, st.currentPos)
      found == startPos # -1
      gap == IF startPos > st.currentPos
             THEN substring(originalText, st.currentPos, startPos) ELSE <<>>
      w == applyRubyToWord(word, st.skip,
                           IF found THEN Advance(st.since, gap, cfg.skipLength)
                           ELSE st.since,
                           cfg, found)
      result == IF found THEN st.result \o gap \o w.result ELSE st.result
      next == IF found THEN startPos + Len(word.surface)
              ELSE st.currentPos + Len(word.surface)
  IN  [result |-> result,
       currentPos |-> next,
       skip |-> w.skip,
       since |-> IF found THEN w.since ELSE st.since,
       decisions |-> st.decisions \o w.decisions,
       steps |-> Append(st.steps,
                   [found |-> found, surface |-> word.surface,
                    posBefore |-> st.currentPos, posAfter |-> next,
                    wrote |-> result # st.result,
                    skipBefore |-> st.skip, skipAfter |-> w.skip])]

\* one iteration of the loop over the words of the response
alignWord(st, word, originalText, cfg) ==
  LET startPos == indexOf(originalText, word.surface, st.currentPos)
      found == startPos # -1
      gap == IF startPos > st.currentPos
             THEN substring(originalText, st.currentPos, startPos) ELSE <<>>
      w == applyRubyToWord(word, st.skip,
                           IF found THEN Advance(st.since, gap, cfg.skipLength)
                           ELSE st.since,
                           cfg, found)
      result == IF found THEN st.result \o gap \o w.result ELSE st.result
      next == IF found THEN startPos + Len(word.surface) ELSE st.currentPos
  IN  [result |-> result,
       currentPos |-> next,
       skip |-> w.skip,
       since |-> IF found THEN w.since ELSE st.since,
       decisions |-> st.decisions \o w.decisions,
       steps |-> Append(st.steps,
                   [found |-> found, surface |-> word.surface,
                    posBefore |-> st.currentPos, posAfter |-> next,
                    wrote |-> result # st.result,
                    skipBefore |-> st.skip, skipAfter |-> w.skip])]

RECURSIVE alignLoop(_, _, _, _, _)
alignLoop(st, words, n, originalText, cfg) ==
  IF n > Len(words)
  THEN LET rest == IF st.currentPos < Len(originalText)
                   THEN substring(originalText, st.currentPos, Len(originalText))
                   ELSE <<>>
       IN  [st EXCEPT !.result = @ \o rest, !.since = Advance(@, rest, cfg.skipLength)]
  ELSE alignLoop(alignWord(st, words[n], originalText, cfg), words, n + 1,
                 originalText, cfg)

applyRubyFromResponse(words, originalText, skip, since, cfg) ==
  alignLoop([result |-> <<>>, currentPos |-> 0, skip |-> skip, since |-> since,
             decisions |-> <<>>, steps |-> <<>>],
            words, 1, originalText, cfg)

(***************************************************************************)
(* processChunk, from the point where the main request returns.  response  *)
(* is what requestFurigana gives: ok with the words of the result, or not  *)
(* ok when it throws (the transport failed, the endpoint answered with an  *)
(* error status, or the body has no result).                               *)
(***************************************************************************)
\* the mutant: the error path clears the SkipTable
processChunkClearing(chunk, response, skip, since, cfg) ==
  IF response.ok
  THEN [threw |-> FALSE, r |-> applyRubyFromResponse(response.word, chunk, skip, since, cfg)]
  ELSE [threw |-> TRUE,
        r |-> [result |-> <<>>, currentPos |-> 0, skip |-> EmptySkip, since |-> since,
               decisions |-> <<>>, steps |-> <<>>]]

\* the mutant: every chunk is decided on a table of its own
processChunkFresh(chunk, response, skip, since, cfg) ==
  IF response.ok
  THEN [threw |-> FALSE,
        r |-> applyRubyFromResponse(response.word, chunk, EmptySkip, since, cfg)]
  ELSE [threw |-> TRUE,
        r |-> [result |-> <<>>, currentPos |-> 0, skip |-> skip, since |-> since,
               decisions |-> <<>>, steps |-> <<>>]]

processChunk(chunk, response, skip, since, cfg) ==
  IF response.ok
  THEN [threw |-> FALSE, r |-> applyRubyFromResponse(response.word, chunk, skip, since, cfg)]
  ELSE [threw |-> TRUE,
        r |-> [result |-> <<>>, currentPos |-> 0, skip |-> skip, since |-> since,
               decisions |-> <<>>, steps |-> <<>>]]

\* the mutant: the catch block adds nothing to the result
processCatchDropping(raw) == <<>>

\* the catch blocks of process: result += part, result += chunk
processCatch(raw) == raw

\* the mutant: no catch block, the error leaves process
afterCatchRejecting == "rejected"

\* after a catch block the loop goes on
afterCatch == "loop"

(***************************************************************************)
(* The state of one FuriganaProcessor and of its call of process.          *)
(***************************************************************************)
VARIABLES
  pc,          \* "idle", "loop", "test", "main", "done" or "rejected"
  skipLength,  \* this.skipLength
  rubyStyle,   \* this.rubyStyle
  skipInfo,    \* this.skipInfo
  maxLength,   \* the byte budget of splitTextIntoChunks
  text,        \* the argument of process
  chunks,      \* const chunks
  i,           \* the chunk of the loop, from 1
  j,           \* the part of the inner loop, from 1; 0 outside the inner loop
  cur,         \* the chunk or part processChunk is working on
  result,      \* let result
  sent,        \* history: the requests made to /api/furigana
  since,       \* history: see NoGloss
  failed,      \* history: a chunk or part of this call fell back to its text
  last,        \* history: what the last chunk or part did
  runs         \* two more processors, each with a call of process of its own

vars ==
  <<pc, skipLength, rubyStyle, skipInfo, maxLength, text, chunks, i, j, cur, result,
    sent, since, failed, last, runs>>

Styles == {"InkBracket", "XHTML"}

SkipLengths == (-1)..MaxSkipLength

\* process always splits with the default budget of 4000 bytes.  The texts of
\* the model are short, so the model runs with budgets of their scale: 7 bytes
\* hold two characters, 13 bytes hold the marker.
ChunkSizes == {7, 13}

Tokens == {<<"K">>, <<"J">>, <<" ">>, Marker}

\* the texts the model calls process with
Texts == {Flatten(ts) : ts \in SeqsUpTo(Tokens, MaxTokens)}

Responses == {[ok |-> TRUE, word |-> ws] : ws \in WordLists}

Failure == [ok |-> FALSE, word |-> <<>>]

cfg == [skipLength |-> skipLength, rubyStyle |-> rubyStyle]

NoUnit ==
  [outcome |-> "none", raw |-> <<>>, out |-> <<>>, from |-> 0, markerAfter |-> FALSE,
   skipBefore |-> EmptySkip, skipAfter |-> EmptySkip, decisions |-> <<>>, steps |-> <<>>,
   nwords |-> 0]

\* no further processor
NoRuns == <<>>

\* the constructor
Init ==
  /\ pc = "idle"
  /\ skipLength \in SkipLengths
  /\ rubyStyle \in Styles
  /\ skipInfo = EmptySkip
  /\ maxLength \in ChunkSizes
  /\ text = <<>>
  /\ chunks = <<>>
  /\ i = 0
  /\ j = 0
  /\ cur = [text |-> <<>>, from |-> 0, markerAfter |-> FALSE, part |-> 0]
  /\ result = <<>>
  /\ sent = <<>>
  /\ since = NoGloss
  /\ failed = FALSE
  /\ last = NoUnit
  /\ runs = NoRuns

(***************************************************************************)
(* The position of the loops of process.                                   *)
(***************************************************************************)
\* the part the inner loop is at, 0 when chunk i has no marker
partAt == IF j > 0 THEN j ELSE IF includes(chunks[i], Marker) THEN 1 ELSE 0

parts == split(chunks[i], Marker)

\* the text handed to processChunk
unit == IF partAt = 0 THEN chunks[i] ELSE parts[partAt]

\* j < parts.length - 1, on the 0-based j of the source
markerAfter == partAt > 0 /\ partAt < Len(parts)

RECURSIVE SumLen(_)
SumLen(ss) == IF ss = <<>> THEN 0 ELSE Len(Head(ss)) + SumLen(Tail(ss))

\* the 0-based position of unit in text
unitFrom ==
  SumLen(SubSeq(chunks, 1, i - 1))
  + (IF partAt = 0 THEN 0
     ELSE SumLen(SubSeq(parts, 1, partAt - 1)) + (partAt - 1) * Len(Marker))

\* the chunk or part of the iteration that starts now
thisUnit == [text |-> unit, from |-> unitFrom, markerAfter |-> markerAfter, part |-> partAt]

NoCur == [text |-> <<>>, from |-> 0, markerAfter |-> FALSE, part |-> 0]

\* where process is after an iteration that leaves the chunk loop at n: in the
\* loop, or returned from once the last chunk is done
loopOrDone(n, goOn) == IF goOn = "loop" /\ n > Len(chunks) THEN "done" ELSE goOn

\* the end of the iteration of u: its output, then the marker and the reset of
\* the SkipTable when a marker follows the part; goOn is "loop" unless the
\* iteration ended the call
Complete(u, out, skipAfter, sinceAfter, outcome, decisions, steps, nwords, goOn) ==
  /\ pc' = loopOrDone(IF u.markerAfter THEN i ELSE i + 1, goOn)
  /\ result' = result \o out \o (IF u.markerAfter THEN Marker ELSE <<>>)
  /\ skipInfo' = IF u.markerAfter THEN EmptySkip ELSE skipAfter
  /\ since' = IF u.markerAfter THEN NoGloss ELSE sinceAfter
  /\ i' = IF u.markerAfter THEN i ELSE i + 1
  /\ j' = IF u.markerAfter THEN u.part + 1 ELSE 0
  /\ cur' = NoCur
  /\ last' = [outcome |-> outcome, raw |-> u.text, out |-> out,
              from |-> u.from, markerAfter |-> u.markerAfter,
              skipBefore |-> skipInfo, skipAfter |-> skipAfter,
              decisions |-> decisions, steps |-> steps, nwords |-> nwords]
  /\ failed' = (failed \/ outcome = "fail")

(***************************************************************************)
(* The actions.                                                            *)
(***************************************************************************)
\* process(t), up to the loop (an empty text has no chunk, and process returns);
\* the model takes the texts of at most MaxChunks chunks
process(t) ==
  /\ pc = "idle"
  /\ Len(splitTextIntoChunks(t, maxLength)) <= MaxChunks
  /\ text' = t
  /\ chunks' = splitTextIntoChunks(t, maxLength)
  /\ result' = <<>>
  /\ i' = 1
  /\ j' = 0
  /\ pc' = IF splitTextIntoChunks(t, maxLength) = <<>> THEN "done" ELSE "loop"
  /\ UNCHANGED <<runs, skipLength, rubyStyle, skipInfo, maxLength, cur, sent, since, failed,
                 last>>

\* an iteration starts: an empty part is passed over, a blank chunk comes back
\* from processChunk as it is, any other makes processChunk send its test request
StartUnit ==
  /\ pc = "loop"
  /\ i <= Len(chunks)
  /\ \E u \in {thisUnit} :
         IF u.part > 0 /\ u.text = <<>>
         THEN /\ Complete(u, <<>>, skipInfo, since, "empty", <<>>, <<>>, 0, "loop")
              /\ UNCHANGED sent
         ELSE IF IsBlank(u.text)
         THEN /\ Complete(u, u.text, skipInfo, since, "blank", <<>>, <<>>, 0, "loop")
              /\ UNCHANGED sent
         ELSE /\ pc' = "test"
              /\ cur' = u
              /\ j' = u.part
              /\ sent' = Append(sent, [kind |-> "test", text |-> <<"K", "J">>, from |-> -1])
              /\ UNCHANGED <<i, result, skipInfo, since, failed, last>>
  /\ UNCHANGED <<runs, skipLength, rubyStyle, maxLength, text, chunks>>

\* the test request returns or fails (its outcome is only logged), and
\* requestFurigana sends the chunk
TestReturns ==
  /\ pc = "test"
  /\ pc' = "main"
  /\ sent' = Append(sent, [kind |-> "main", text |-> cur.text, from |-> cur.from])
  /\ UNCHANGED <<runs, skipLength, rubyStyle, skipInfo, maxLength, text, chunks, i, j, cur,
                 result, since, failed, last>>

\* the main request returns: the rest of processChunk and of the iteration
MainReturns(response) ==
  /\ pc = "main"
  /\ \E p \in {processChunk(cur.text, response, skipInfo, since, cfg)} :
         IF p.threw
         THEN Complete(cur, processCatch(cur.text), p.r.skip,
                       Advance(since, cur.text, skipLength), "fail", <<>>, <<>>, 0,
                       afterCatch)
         ELSE Complete(cur, p.r.result, p.r.skip, p.r.since, "ok",
                       p.r.decisions, p.r.steps, Len(response.word), "loop")
  /\ UNCHANGED <<runs, skipLength, rubyStyle, maxLength, text, chunks, sent>>

RequestSucceeds == \E response \in Responses : MainReturns(response)

RequestFails == MainReturns(Failure)

Call == \E t \in Texts : process(t)

Next ==
  \/ Call
  \/ StartUnit
  \/ TestReturns
  \/ RequestSucceeds
  \/ RequestFails

Spec == Init /\ [][Next]_vars

(***************************************************************************)
(* splitTextIntoChunks on its own, for every byte budget from 0 to         *)
(* MaxSplitSize.                                                           *)
(***************************************************************************)
SplitSizes == 0..MaxSplitSize

SplitTokens == {<<"K">>, <<" ">>, <<"LF">>, <<".">>, Marker}

\* the texts the model splits
SplitTexts == {Flatten(ts) : ts \in SeqsUpTo(SplitTokens, MaxTokens)}

InitSplit ==
  /\ pc = "idle"
  /\ skipLength = 0
  /\ rubyStyle = "InkBracket"
  /\ skipInfo = EmptySkip
  /\ maxLength \in SplitSizes
  /\ text = <<>>
  /\ chunks = <<>>
  /\ i = 0
  /\ j = 0
  /\ cur = NoCur
  /\ result = <<>>
  /\ sent = <<>>
  /\ since = NoGloss
  /\ failed = FALSE
  /\ last = NoUnit
  /\ runs = NoRuns

\* splitTextIntoChunks(t, maxLength)
SplitText(t) ==
  /\ pc = "idle"
  /\ text' = t
  /\ chunks' = splitTextIntoChunks(t, maxLength)
  /\ pc' = "split"
  /\ UNCHANGED <<runs, skipLength, rubyStyle, skipInfo, maxLength, i, j, cur, result, sent,
                 since, failed, last>>

\* splitTextIntoChunks(t) of the first furiganaApi
SplitTextByLines(t) ==
  /\ pc = "idle"
  /\ text' = t
  /\ chunks' = splitTextIntoChunksByLines(t)
  /\ pc' = "splitLines"
  /\ UNCHANGED <<runs, skipLength, rubyStyle, skipInfo, maxLength, i, j, cur, result, sent,
                 since, failed, last>>

NextSplit == \E t \in SplitTexts : SplitText(t) \/ SplitTextByLines(t)

SpecSplit == InitSplit /\ [][NextSplit]_vars

(***************************************************************************)
(* The call of process under its scheduling: a step that can be taken is   *)
(* taken, and every request to the endpoint returns or fails.              *)
(***************************************************************************)
LiveInit ==
  /\ Init
  /\ rubyStyle = "InkBracket"
  /\ skipLength \in {0, 1}

LiveSpec ==
  /\ LiveInit
  /\ [][Next]_vars
  /\ WF_vars(StartUnit)
  /\ WF_vars(TestReturns)
  /\ WF_vars(RequestSucceeds \/ RequestFails)

(***************************************************************************)
(* The end-to-end example: a processor with skip length 10 and the ink     *)
(* bracket style, the default byte budget, texts made of the word KJ, of   *)
(* kana ("h") and of the marker, and an Annotator that answers every       *)
(* occurrence of KJ with the word KJ and its reading and every other       *)
(* character with a word that has no reading.                              *)
(***************************************************************************)
ExampleTokens == {<<"K", "J">>, <<"h">>, Marker}

ExampleTexts == {Flatten(ts) : ts \in SeqsUpTo(ExampleTokens, MaxExampleTokens)}

RECURSIVE annotateFrom(_, _)
annotateFrom(t, p) ==
  IF p > Len(t) THEN <<>>
  ELSE IF p < Len(t) /\ t[p] = "K" /\ t[p + 1] = "J"
       THEN <<Word(<<"K", "J">>, <<"k", "j">>, <<>>)>> \o annotateFrom(t, p + 2)
       ELSE <<Word(<<t[p]>>, <<>>, <<>>)>> \o annotateFrom(t, p + 1)

\* the words the Annotator of the example returns for t
annotate(t) == annotateFrom(t, 1)

InitExample ==
  /\ pc = "idle"
  /\ skipLength = ExampleSkipLength
  /\ rubyStyle = "InkBracket"
  /\ skipInfo = EmptySkip
  /\ maxLength = DefaultMaxLength
  /\ text = <<>>
  /\ chunks = <<>>
  /\ i = 0
  /\ j = 0
  /\ cur = NoCur
  /\ result = <<>>
  /\ sent = <<>>
  /\ since = NoGloss
  /\ failed = FALSE
  /\ last = NoUnit
  /\ runs = NoRuns

CallExample == \E t \in ExampleTexts : process(t)

AnnotatorAnswers == MainReturns([ok |-> TRUE, word |-> annotate(cur.text)])

NextExample ==
  \/ CallExample
  \/ StartUnit
  \/ TestReturns
  \/ AnnotatorAnswers
  \/ RequestFails

SpecExample == InitExample /\ [][NextExample]_vars

(***************************************************************************)
(* The methods of the SkipTable on their own: shouldSkipRuby,              *)
(* updateSkipInfo and decrementSkipCounts, called in any order on one      *)
(* processor.  cur is the surface of the call, last what the call did.     *)
(***************************************************************************)
Surfaces == SeqsUpTo({"K", "J", " "}, MaxSurface)

InitSuppressor ==
  /\ pc = "idle"
  /\ skipLength \in SkipLengths
  /\ rubyStyle = "InkBracket"
  /\ skipInfo = EmptySkip
  /\ maxLength = DefaultMaxLength
  /\ text = <<>>
  /\ chunks = <<>>
  /\ i = 0
  /\ j = 0
  /\ cur = <<>>
  /\ result = <<>>
  /\ sent = <<>>
  /\ since = NoGloss
  /\ failed = FALSE
  /\ last = [skipBefore |-> EmptySkip, answer |-> FALSE]
  /\ runs = NoRuns

\* this.shouldSkipRuby(surface)
ShouldSkipRuby(surface) ==
  /\ pc \in {"idle", "asked", "updated", "decremented"}
  /\ pc' = "asked"
  /\ cur' = surface
  /\ last' = [skipBefore |-> skipInfo, answer |-> shouldSkipRuby(surface, skipInfo)]
  /\ UNCHANGED <<runs, skipLength, rubyStyle, skipInfo, maxLength, text, chunks, i, j,
                 result, sent, since, failed>>

\* this.updateSkipInfo(surface)
UpdateSkipInfo(surface) ==
  /\ pc \in {"idle", "asked", "updated", "decremented"}
  /\ pc' = "updated"
  /\ cur' = surface
  /\ skipInfo' = updateSkipInfo(surface, skipInfo, skipLength)
  /\ last' = [skipBefore |-> skipInfo, answer |-> FALSE]
  /\ UNCHANGED <<runs, skipLength, rubyStyle, maxLength, text, chunks, i, j, result, sent,
                 since, failed>>

\* processor.decrementSkipCounts()
DecrementSkipCounts ==
  /\ pc \in {"idle", "asked", "updated", "decremented"}
  /\ pc' = "decremented"
  /\ cur' = <<>>
  /\ skipInfo' = decrementSkipCounts(skipInfo)
  /\ last' = [skipBefore |-> skipInfo, answer |-> FALSE]
  /\ UNCHANGED <<runs, skipLength, rubyStyle, maxLength, text, chunks, i, j, result, sent,
                 since, failed>>

NextSuppressor ==
  \/ \E surface \in Surfaces : ShouldSkipRuby(surface)
  \/ \E surface \in Surfaces : UpdateSkipInfo(surface)
  \/ DecrementSkipCounts

SpecSuppressor == InitSuppressor /\ [][NextSuppressor]_vars

(***************************************************************************)
(* The rendering of one surface with its reading on its own: as the        *)
(* processor does it for a whole word, and with the renderers of the first *)
(* furiganaApi.  cur is the word, result the rendered text.                *)
(***************************************************************************)
Readings == SeqsUpTo({"k", "j"}, MaxReading) \ {<<>>}

InitRender ==
  /\ pc = "idle"
  /\ skipLength = 0
  /\ rubyStyle \in Styles
  /\ skipInfo = EmptySkip
  /\ maxLength = DefaultMaxLength
  /\ text = <<>>
  /\ chunks = <<>>
  /\ i = 0
  /\ j = 0
  /\ cur = NoCur
  /\ result = <<>>
  /\ sent = <<>>
  /\ since = NoGloss
  /\ failed = FALSE
  /\ last = NoUnit
  /\ runs = NoRuns

\* the style test of applyRubyToWord and the renderer it calls
RenderWord(surface, furigana) ==
  /\ pc = "idle"
  /\ pc' = "rendered"
  /\ cur' = [surface |-> surface, furigana |-> furigana]
  /\ result' = renderRuby(rubyStyle, surface, furigana)
  /\ UNCHANGED <<runs, skipLength, rubyStyle, skipInfo, maxLength, text, chunks, i, j, sent,
                 since, failed, last>>

\* the same with the renderers of the first furiganaApi
RenderWordFirstApi(surface, furigana) ==
  /\ pc = "idle"
  /\ pc' = "renderedFirstApi"
  /\ cur' = [surface |-> surface, furigana |-> furigana]
  /\ result' = IF rubyStyle = "InkBracket"
               THEN applyInkBracketRubyByKanji(surface, furigana)
               ELSE applyXhtmlRubyByKanji(surface, furigana)
  /\ UNCHANGED <<runs, skipLength, rubyStyle, skipInfo, maxLength, text, chunks, i, j, sent,
                 since, failed, last>>

NextRender ==
  \E surface \in Surfaces \ {<<>>}, furigana \in Readings :
     RenderWord(surface, furigana) \/ RenderWordFirstApi(surface, furigana)

SpecRender == InitRender /\ [][NextRender]_vars

(***************************************************************************)
(* applyRubyToWord on its own: one word that carries subwords, rendered    *)
(* against a SkipTable that earlier words have left.  cur is the word,     *)
(* result its rendering, last the table before and the decisions taken.    *)
(***************************************************************************)
SubWords == {SubWord(<<"K">>, <<"k">>), SubWord(<<"J">>, <<"j">>), SubWord(<<" ">>, <<>>)}

\* the words whose subwords cover the surface, with a reading
SubwordWords ==
  { Word(Flatten([n \in DOMAIN ss |-> ss[n].surface]),
         Flatten([n \in DOMAIN ss |-> ss[n].furigana]), ss) :
      ss \in { s \in SeqsUpTo(SubWords, MaxSubwords) :
                 \E n \in DOMAIN s : s[n].furigana # <<>> } }

\* the tables updateSkipInfo can have left: every entry is skipLength
SkipTables(skipLen) ==
  IF skipLen > 0 THEN {[k \in D |-> skipLen] : D \in SUBSET {"K", "J"}} ELSE {EmptySkip}

InitWord ==
  /\ pc = "idle"
  /\ skipLength \in SkipLengths
  /\ rubyStyle \in Styles
  /\ skipInfo \in SkipTables(skipLength)
  /\ maxLength = DefaultMaxLength
  /\ text = <<>>
  /\ chunks = <<>>
  /\ i = 0
  /\ j = 0
  /\ cur = NoCur
  /\ result = <<>>
  /\ sent = <<>>
  /\ since = NoGloss
  /\ failed = FALSE
  /\ last = NoUnit
  /\ runs = NoRuns

ApplyRubyToWord(word) ==
  /\ pc = "idle"
  /\ pc' = "word"
  /\ cur' = word
  /\ \E w \in {applyRubyToWord(word, skipInfo, since, cfg, TRUE)} :
        /\ result' = w.result
        /\ skipInfo' = w.skip
        /\ since' = w.since
        /\ last' = [skipBefore |-> skipInfo, decisions |-> w.decisions]
  /\ UNCHANGED <<runs, skipLength, rubyStyle, maxLength, text, chunks, i, j, sent, failed>>

NextWord == \E word \in SubwordWords : ApplyRubyToWord(word)

SpecWord == InitWord /\ [][NextWord]_vars

(***************************************************************************)
(* The call of process with an Annotator that gives no reading: every      *)
(* request fails, or is answered with words that have no furigana (the     *)
(* word KJ keeps subwords with readings, which applyRubyToWord does not    *)
(* look at when the word has no furigana).  The byte budgets are the one   *)
(* that holds the marker and the default.                                  *)
(***************************************************************************)
PlainVocabulary ==
  { Word(<<"K">>, <<>>, <<>>),
    Word(<<"J">>, <<>>, <<>>),
    Word(<<" ">>, <<>>, <<>>),
    Word(<<"K", "J">>, <<>>, <<SubWord(<<"K">>, <<"k">>), SubWord(<<"J">>, <<"j">>)>>) }

PlainResponses == {[ok |-> TRUE, word |-> ws] : ws \in SeqsUpTo(PlainVocabulary, MaxWords)}

InitPlain ==
  /\ pc = "idle"
  /\ skipLength \in {0, 1}
  /\ rubyStyle \in Styles
  /\ skipInfo = EmptySkip
  /\ maxLength \in {13, DefaultMaxLength}
  /\ text = <<>>
  /\ chunks = <<>>
  /\ i = 0
  /\ j = 0
  /\ cur = NoCur
  /\ result = <<>>
  /\ sent = <<>>
  /\ since = NoGloss
  /\ failed = FALSE
  /\ last = NoUnit
  /\ runs = NoRuns

PlainAnswer == \E response \in PlainResponses : MainReturns(response)

NextPlain ==
  \/ Call
  \/ StartUnit
  \/ TestReturns
  \/ PlainAnswer
  \/ RequestFails

SpecPlain == InitPlain /\ [][NextPlain]_vars

(***************************************************************************)
(* One processor that is called again after a call of process has          *)
(* returned.  process assigns neither skipInfo nor any other field at its  *)
(* entry, so the second call starts on the table the first has left.  The  *)
(* histories of the requests and of the last iteration start anew with     *)
(* the call; last records the table the call found.                        *)
(***************************************************************************)
RepeatInit ==
  /\ Init
  /\ rubyStyle = "InkBracket"
  /\ skipLength = 1
  /\ maxLength = 13

\* process(t) on a processor whose earlier call has returned
processAgain(t) ==
  /\ pc = "done"
  /\ Len(splitTextIntoChunks(t, maxLength)) <= MaxChunks
  /\ text' = t
  /\ chunks' = splitTextIntoChunks(t, maxLength)
  /\ result' = <<>>
  /\ i' = 1
  /\ j' = 0
  /\ pc' = IF splitTextIntoChunks(t, maxLength) = <<>> THEN "done" ELSE "loop"
  /\ sent' = <<>>
  /\ failed' = FALSE
  /\ last' = [NoUnit EXCEPT !.outcome = "call", !.skipBefore = skipInfo]
  /\ UNCHANGED <<runs, skipLength, rubyStyle, skipInfo, maxLength, cur, since>>

CallAgain == \E t \in Texts : processAgain(t)

NextRepeat ==
  \/ Call
  \/ CallAgain
  \/ StartUnit
  \/ TestReturns
  \/ RequestSucceeds
  \/ RequestFails

SpecRepeat == RepeatInit /\ [][NextRepeat]_vars

(***************************************************************************)
(* Two processors, each with one call of process, interleaved at the       *)
(* awaits of the calls (JavaScript runs the code between two awaits        *)
(* without interruption).  A processor is a record of runs: its fields     *)
(* skipInfo, skipLength and rubyStyle, and of its call of process the      *)
(* text, the chunks and parts in the order of the loops (units), the       *)
(* iteration n, result, and the history of the responses it was given.     *)
(***************************************************************************)
Processors == {1, 2}

PairTokens == {<<"K">>, <<" ">>, Marker}

PairTexts == {Flatten(ts) : ts \in SeqsUpTo(PairTokens, MaxPairTokens)}

PairResponses ==
  {Failure} \cup {[ok |-> TRUE, word |-> ws] :
                    ws \in SeqsUpTo({Word(<<"K">>, <<"k">>, <<>>)}, 2) \ {<<>>}}

\* the byte budgets of the two calls: of the scale of the texts (two
\* characters), and the default, which holds every text of the model
PairChunkSizes == {7, DefaultMaxLength}

\* new FuriganaProcessor(clientId, skipLen, grade, style); budget is the byte
\* budget its call of process splits with
newRun(skipLen, style, budget) ==
  [pc |-> "idle", skipLength |-> skipLen, rubyStyle |-> style, skipInfo |-> EmptySkip,
   maxLength |-> budget, text |-> <<>>, units |-> <<>>, n |-> 0, result |-> <<>>, answers |-> <<>>]

\* the iterations a chunk stands for: the chunk, or its parts, each but the
\* last followed by the marker
unitsOfChunk(chunk) ==
  IF includes(chunk, Marker)
  THEN LET ps == split(chunk, Marker)
       IN  [k \in DOMAIN ps |-> [text |-> ps[k], markerAfter |-> k < Len(ps)]]
  ELSE <<[text |-> chunk, markerAfter |-> FALSE]>>

unitsOf(cs) == Flatten([k \in DOMAIN cs |-> unitsOfChunk(cs[k])])

\* the mutant: one table for all processors (a static field)
thisSkipInfoStatic(rs, p) == rs[1].skipInfo

\* this.skipInfo of processor p: a field of the instance
thisSkipInfo(rs, p) == rs[p].skipInfo

\* process(t), up to the loop
runCall(r, t) ==
  LET us == unitsOf(splitTextIntoChunks(t, r.maxLength))
  IN  [r EXCEPT !.text = t, !.units = us, !.n = 1, !.result = <<>>,
                !.pc = IF us = <<>> THEN "done" ELSE "loop"]

\* the end of an iteration: its output, then the marker and the reset of the
\* table when a marker follows the part
runComplete(r, out, skip) ==
  LET u == r.units[r.n]
  IN  [r EXCEPT !.result = @ \o out \o (IF u.markerAfter THEN Marker ELSE <<>>),
                !.skipInfo = IF u.markerAfter THEN EmptySkip ELSE skip,
                !.n = @ + 1,
                !.pc = IF r.n + 1 > Len(r.units) THEN "done" ELSE "loop"]

\* an iteration starts: an empty part is passed over, a blank chunk comes back
\* as it is, any other makes processChunk send its test request
runStartUnit(r) ==
  LET u == r.units[r.n]
  IN  IF IsBlank(u.text) THEN runComplete(r, u.text, r.skipInfo)
      ELSE [r EXCEPT !.pc = "test"]

runTestReturns(r) == [r EXCEPT !.pc = "main"]

\* the main request returns; table is this.skipInfo
runMainReturns(r, response, table) ==
  LET u == r.units[r.n]
      p == processChunk(u.text, response, table, NoGloss,
                        [skipLength |-> r.skipLength, rubyStyle |-> r.rubyStyle])
  IN  runComplete([r EXCEPT !.answers = Append(@, response)],
                  IF p.threw THEN processCatch(u.text) ELSE p.r.result, p.r.skip)

\* the variables of the single processor, which stays as constructed
solo ==
  <<pc, skipLength, rubyStyle, skipInfo, maxLength, text, chunks, i, j, cur, result,
    sent, since, failed, last>>

InitPair ==
  /\ pc = "idle"
  /\ skipLength = 0
  /\ rubyStyle = "InkBracket"
  /\ skipInfo = EmptySkip
  /\ maxLength = DefaultMaxLength
  /\ text = <<>>
  /\ chunks = <<>>
  /\ i = 0
  /\ j = 0
  /\ cur = NoCur
  /\ result = <<>>
  /\ sent = <<>>
  /\ since = NoGloss
  /\ failed = FALSE
  /\ last = NoUnit
  /\ runs \in [Processors -> {newRun(1, "InkBracket", b) : b \in PairChunkSizes}]

\* the model takes the texts of at most MaxChunks iterations
PairProcess(p, t) ==
  /\ runs[p].pc = "idle"
  /\ Len(runCall(runs[p], t).units) <= MaxChunks
  /\ runs' = [runs EXCEPT ![p] = runCall(@, t)]
  /\ UNCHANGED solo

PairStartUnit(p) ==
  /\ runs[p].pc = "loop"
  /\ runs' = [runs EXCEPT ![p] = runStartUnit(@)]
  /\ UNCHANGED solo

PairTestReturns(p) ==
  /\ runs[p].pc = "test"
  /\ runs' = [runs EXCEPT ![p] = runTestReturns(@)]
  /\ UNCHANGED solo

PairMainReturns(p, response) ==
  /\ runs[p].pc = "main"
  /\ runs' = [runs EXCEPT ![p] = runMainReturns(@, response, thisSkipInfo(runs, p))]
  /\ UNCHANGED solo

PairCall == \E p \in Processors, t \in PairTexts : PairProcess(p, t)

PairStep == \E p \in Processors : PairStartUnit(p) \/ PairTestReturns(p)

PairAnswer == \E p \in Processors, response \in PairResponses : PairMainReturns(p, response)

NextPair ==
  \/ PairCall
  \/ PairStep
  \/ PairAnswer

SpecPair == InitPair /\ [][NextPair]_vars

(***************************************************************************)
(* Operators of the properties.                                            *)
(***************************************************************************)
EndsWith(s, suffix) ==
  Len(s) >= Len(suffix) /\ SubSeq(s, Len(s) - Len(suffix) + 1, Len(s)) = suffix

RECURSIVE StripFrom(_, _, _)
\* out from position p on, without the readings and the tags the renderers add
StripFrom(out, p, inReading) ==
  IF p > Len(out) THEN <<>>
  ELSE IF out[p] \in {"<<", "<rt>"} THEN StripFrom(out, p + 1, TRUE)
  ELSE IF out[p] \in {">>", "</rt></ruby>"} THEN StripFrom(out, p + 1, FALSE)
  ELSE IF out[p] = "<ruby>" \/ inReading THEN StripFrom(out, p + 1, inReading)
  ELSE <<out[p]>> \o StripFrom(out, p + 1, inReading)

Strip(out) == StripFrom(out, 1, FALSE)

\* the 0-based positions of text that belong to an occurrence of the marker
MarkerPositions(t) ==
  {p \in 0..(Len(t) - 1) :
     \E q \in 0..(Len(t) - Len(Marker)) :
        /\ substring(t, q, q + Len(Marker)) = Marker
        /\ q <= p
        /\ p < q + Len(Marker)}

\* the chunks and parts of cs that processChunk sends to the endpoint
RECURSIVE UnitsToSend(_)
UnitsToSend(cs) ==
  IF cs = <<>> THEN <<>>
  ELSE LET c == Head(cs)
           us == IF includes(c, Marker) THEN split(c, Marker) ELSE <<c>>
       IN  SelectSeq(us, LAMBDA u : ~IsBlank(u)) \o UnitsToSend(Tail(cs))

MainRequests == SelectSeq(sent, LAMBDA r : r.kind = "main")

\* the chunks, each followed by the marker where marks says so, in their order
Reconstruct(cs, marks) ==
  Flatten([n \in DOMAIN cs |-> cs[n] \o (IF n \in marks THEN Marker ELSE <<>>)])

\* C1: the chunks returned by splitTextIntoChunks, concatenated in their order
\* with the marker reinserted after the chunks that end in a page break, are
\* the text.  The chunks are strings and carry no mark, so this is stated for
\* whatever set of chunks is taken to be marked.
C1_RoundTrip ==
  pc \in {"split", "splitLines"} =>
    \E marks \in SUBSET DOMAIN chunks : Reconstruct(chunks, marks) = text

\* the round trip of the character loop: its chunks alone are the text
CharacterLoopRoundTrip == pc = "split" => Flatten(chunks) = text

\* C2: with skip length N > 0, a candidate that is written to the output is
\* suppressed exactly while one of its kanji was rendered with a reading fewer
\* than N kanji characters ago (and no page break since); once N kanji have
\* been written it is rendered with its reading again.  Stated for the
\* candidates whose SkipTable entries all stem from readings in the output.
C2_SuppressionWindow ==
  skipLength > 0 =>
    \A n \in DOMAIN last.decisions :
       (last.decisions[n].emitted /\ last.decisions[n].clean) =>
         (last.decisions[n].suppressed <=> last.decisions[n].inWindow)

\* C3: right after the marker is written to the output, no kanji that was
\* rendered with a reading before the marker has a SkipTable entry left, so
\* that it is rendered with its reading again after the marker
C3_PageBreakReset ==
  (pc # "idle" /\ EndsWith(result, Marker)) =>
    \A k \in DOMAIN skipInfo : since[k] = -1

\* C4: a chunk or part whose request fails gives its own text to the output,
\* and the call goes on: when it returns, every chunk or part that is not blank
\* has been sent, and the output without the readings is the text
C4_FallbackOnServiceError ==
  /\ last.outcome = "fail" => last.out = last.raw
  /\ pc = "done" =>
       /\ [n \in DOMAIN MainRequests |-> MainRequests[n].text] = UnitsToSend(chunks)
       /\ Strip(result) = text

C4_Witness ==
  /\ pc = "done"
  /\ failed
  /\ last.outcome = "ok"
  /\ Len(last.out) > Len(last.raw)

\* C5: a chunk or part that falls back to its text leaves the SkipTable as it
\* was before it, and that table is the one the next chunk starts with (unless
\* a marker follows the part and empties it)
C5_FailureKeepsSkipTable ==
  last.outcome = "fail" =>
    /\ last.skipAfter = last.skipBefore
    /\ skipInfo = IF last.markerAfter THEN EmptySkip ELSE last.skipBefore

C5_Witness ==
  /\ last.outcome = "fail"
  /\ ~last.markerAfter
  /\ DOMAIN skipInfo # {}
  /\ last.from > 0

\* C6: with a skip length <= 0 no candidate is suppressed and the SkipTable
\* stays empty
C6_NoSuppressionWhenDisabled ==
  skipLength <= 0 =>
    /\ DOMAIN skipInfo = {}
    /\ \A n \in DOMAIN last.decisions : ~last.decisions[n].suppressed

C6_Witness ==
  /\ skipLength < 0
  /\ last.outcome = "ok"
  /\ last.raw = <<"K", "K">>
  /\ Len(last.decisions) = 2
  /\ \A n \in DOMAIN last.decisions : last.decisions[n].emitted

\* C7: the output of applyRubyFromResponse without the readings is the text of
\* the chunk, whatever the words of the response
C7_MergeReconstruction == last.outcome = "ok" => Strip(last.out) = last.raw

C7_Witness ==
  /\ last.outcome = "ok"
  /\ \E n \in DOMAIN last.steps : ~last.steps[n].found
  /\ \E n \in DOMAIN last.steps : last.steps[n].found
  /\ \E n \in DOMAIN last.decisions :
        last.decisions[n].emitted /\ ~last.decisions[n].suppressed
  /\ Len(last.raw) >= 2

\* C8: a word whose surface is not found at or after the cursor writes nothing
\* and leaves the cursor, and every word of the response is aligned from the
\* cursor the words before it left
C8_AlignmentMissFailSoft ==
  last.outcome = "ok" =>
    /\ Len(last.steps) = last.nwords
    /\ \A n \in DOMAIN last.steps :
         LET st == last.steps[n]
             at == indexOf(last.raw, st.surface, st.posBefore)
         IN  /\ st.posBefore = IF n = 1 THEN 0 ELSE last.steps[n - 1].posAfter
             /\ st.found = (at # -1)
             /\ st.found => st.posAfter = at + Len(st.surface)
             /\ ~st.found => (st.posAfter = st.posBefore /\ ~st.wrote)

C8_Witness ==
  /\ last.outcome = "ok"
  /\ Len(last.steps) = 2
  /\ ~last.steps[1].found
  /\ last.steps[2].found
  /\ last.steps[2].posBefore = 0

\* C9: no request for glossing holds a character of an occurrence of the
\* marker in the text
C9_MarkerNeverSent ==
  \A n \in DOMAIN sent :
     sent[n].kind = "main" =>
       \A p \in sent[n].from..(sent[n].from + Len(sent[n].text) - 1) :
          p \notin MarkerPositions(text)

\* C10: process never rejects, and once called it returns
C10_ProcessReturns ==
  /\ [](pc # "rejected")
  /\ (pc \in {"loop", "test", "main"}) ~> (pc = "done")

C10_Witness ==
  /\ pc = "done"
  /\ failed
  /\ last.outcome = "fail"
  /\ Len(chunks) >= 2

\* the half of C2 that the code keeps: inside the window a candidate is suppressed
SuppressedInsideWindow ==
  skipLength > 0 =>
    \A n \in DOMAIN last.decisions :
       (last.decisions[n].emitted /\ last.decisions[n].inWindow) =>
         last.decisions[n].suppressed

\* C11: the chunks and parts are requested, merged and rendered one after the
\* other in the order of the text: the requests go out in increasing position,
\* a request goes out only when the output holds everything before its chunk,
\* and a chunk after the first is decided on the SkipTable the chunks before it
\* left (a kanji glossed in an earlier chunk, still inside its window, is
\* suppressed)
C11_ChunkOrder ==
  /\ \A m, n \in DOMAIN MainRequests :
        m < n => MainRequests[m].from < MainRequests[n].from
  /\ pc \in {"test", "main"} => Strip(result) = SubSeq(text, 1, cur.from)
  /\ (last.outcome = "ok" /\ last.from > 0 /\ skipLength > 0) =>
        \A n \in DOMAIN last.decisions :
           (last.decisions[n].emitted /\ last.decisions[n].inWindow) =>
             last.decisions[n].suppressed

C11_Witness ==
  /\ pc = "done"
  /\ Len(chunks) = 2
  /\ ~includes(text, Marker)
  /\ Len(MainRequests) = 2
  /\ last.outcome = "ok"
  /\ last.from > 0
  /\ last.skipBefore # EmptySkip
  /\ \E n \in DOMAIN last.decisions :
        /\ last.decisions[n].emitted
        /\ last.decisions[n].inWindow
        /\ last.decisions[n].suppressed

ExampleText == <<"K", "J", "h", "K", "J", "h">> \o Marker \o <<"K", "J">>

ExampleOutput ==
  <<"K", "J", "<<", "k", "j", ">>", "h", "K", "J", "h">> \o Marker
    \o <<"K", "J", "<<", "k", "j", ">>">>

RECURSIVE byteLength(_)
\* the UTF-8 byte length of s
byteLength(s) == IF s = <<>> THEN 0 ELSE utf8Len(Head(s)) + byteLength(Tail(s))

\* one line of text: not empty, no line feed and no marker in it
IsLine(t) ==
  /\ t # <<>>
  /\ \A p \in DOMAIN t : t[p] # "LF"
  /\ ~includes(t, Marker)

\* the maximum the splitter that ran was configured with
ConfiguredMax == IF pc = "split" THEN maxLength ELSE MAX_CHUNK_SIZE

\* C13: a line whose byte length is exactly the configured maximum comes back
\* from splitTextIntoChunks as one chunk, and a line one byte longer comes
\* back as more than one chunk
C13_ChunkSizeBoundary ==
  (pc \in {"split", "splitLines"} /\ IsLine(text)) =>
    /\ byteLength(text) = ConfiguredMax => Len(chunks) = 1
    /\ byteLength(text) = ConfiguredMax + 1 => Len(chunks) > 1

\* the size boundary of the character loop
CharacterLoopSizeBoundary ==
  (pc = "split" /\ IsLine(text)) =>
    /\ byteLength(text) = maxLength => Len(chunks) = 1
    /\ byteLength(text) = maxLength + 1 => Len(chunks) > 1

\* one token that cannot be split: one character, or a run of characters with
\* no line feed and no punctuation in it
IsOneToken(c) ==
  \/ Len(c) = 1
  \/ /\ c # <<>>
     /\ \A p \in DOMAIN c : c[p] # "LF" /\ ~IsPunct(c[p])

\* C14: every chunk returned by splitTextIntoChunks has at most the configured
\* maximum of bytes, unless it is one token that alone exceeds the maximum
C14_ChunkSizeLimit ==
  pc \in {"split", "splitLines"} =>
    \A n \in DOMAIN chunks :
       byteLength(chunks[n]) <= ConfiguredMax \/ IsOneToken(chunks[n])

\* the size limit of the character loop: a chunk over the budget is one character
CharacterLoopSizeLimit ==
  pc = "split" =>
    \A n \in DOMAIN chunks :
       byteLength(chunks[n]) <= maxLength \/ Len(chunks[n]) = 1

\* a line end or one of the punctuation characters
IsBoundaryChar(c) == c = "LF" \/ IsPunct(c)

\* the part of c after its last line feed, and the part of d before its first
TailLine(c) == LET ls == split(c, <<"LF">>) IN ls[Len(ls)]

HeadLine(d) == Head(split(d, <<"LF">>))

\* the cut between the chunks c and d lies in a line of t that has punctuation
CutInPunctuatedLine(t, c, d) ==
  LET ls == split(t, <<"LF">>)
  IN  \E n \in DOMAIN ls :
        /\ includes(ls[n], TailLine(c) \o HeadLine(d))
        /\ \E p \in DOMAIN ls[n] : IsPunct(ls[n][p])

\* the chunk c ends and the chunk d starts at a text boundary of t: next to a
\* line feed or a punctuation character, or where a line feed or a marker of t
\* was left out between them, or in a line without punctuation
CutAtBoundary(t, c, d) ==
  \/ IsBoundaryChar(c[Len(c)])
  \/ IsBoundaryChar(Head(d))
  \/ includes(t, c \o <<"LF">> \o d)
  \/ includes(t, c \o Marker \o d)
  \/ ~CutInPunctuatedLine(t, c, d)

NonEmptyChunks == SelectSeq(chunks, LAMBDA c : c # <<>>)

\* C15: splitTextIntoChunks cuts only at text boundaries: two chunks that follow
\* each other meet at a line end or next to a punctuation character, never
\* between two ordinary characters of a line that has punctuation (stated for
\* the byte budgets that hold any one character)
C15_CutsAtBoundaries ==
  (pc = "splitLines" \/ (pc = "split" /\ maxLength >= 3)) =>
    \A n \in 1..(Len(NonEmptyChunks) - 1) :
       CutAtBoundary(text, NonEmptyChunks[n], NonEmptyChunks[n + 1])

\* the cuts of the splitter by lines
LineSplitterCutsAtBoundaries == pc = "splitLines" => C15_CutsAtBoundaries

\* C16: every occurrence of the marker is a split point of splitTextIntoChunks:
\* no chunk it returns has the marker in its text
C16_MarkerIsSplitPoint ==
  pc \in {"split", "splitLines"} =>
    \A n \in DOMAIN chunks : ~includes(chunks[n], Marker)

\* C17: shouldSkipRuby(surface) is true exactly when a kanji of surface has an
\* entry greater than 0 in the SkipTable; a surface without kanji is never
\* suppressed, and the call leaves the SkipTable as it was
C17_ShouldSkipRuby ==
  pc = "asked" =>
    /\ last.answer <=>
          \E k \in KanjiOf(cur) \cap DOMAIN last.skipBefore : last.skipBefore[k] > 0
    /\ KanjiOf(cur) = {} => ~last.answer
    /\ skipInfo = last.skipBefore

C17_Witness ==
  /\ pc = "asked"
  /\ last.answer
  /\ cur = <<" ", "K">>
  /\ "J" \in DOMAIN skipInfo
  /\ skipInfo["J"] = 0

\* C18: with a skip length > 0, updateSkipInfo(surface) sets the entry of every
\* kanji of surface to the skip length, whatever it was, leaves every other
\* entry as it was and adds no entry for any other character
C18_UpdateSkipInfo ==
  (pc = "updated" /\ skipLength > 0) =>
    /\ DOMAIN skipInfo = DOMAIN last.skipBefore \cup KanjiOf(cur)
    /\ \A k \in KanjiOf(cur) : skipInfo[k] = skipLength
    /\ \A k \in DOMAIN last.skipBefore \ KanjiOf(cur) : skipInfo[k] = last.skipBefore[k]

C18_Witness ==
  /\ pc = "updated"
  /\ skipLength = 2
  /\ cur = <<"K", " ">>
  /\ "K" \in DOMAIN last.skipBefore
  /\ last.skipBefore["K"] = 1
  /\ "J" \in DOMAIN skipInfo
  /\ skipInfo["J"] = 1

\* the two forms of a word-level gloss
InkBracketForm(s, r) == s \o <<"<<">> \o r \o <<">>">>

XhtmlForm(s, r) == <<"<ruby>">> \o s \o <<"<rt>">> \o r \o <<"</rt></ruby>">>

\* C19: a surface s with the reading r is rendered as s, the opening bracket,
\* r and the closing bracket in the ink-bracket style and as the ruby element
\* of s with the rt element of r in the XHTML style, and the ink-bracket form
\* is used exactly when the configured style is the ink-bracket style
C19_StyleFidelity ==
  pc \in {"rendered", "renderedFirstApi"} =>
    result = IF rubyStyle = "InkBracket"
             THEN InkBracketForm(cur.surface, cur.furigana)
             ELSE XhtmlForm(cur.surface, cur.furigana)

\* the style fidelity of the processor with the renderers it is written against
ProcessorStyleFidelity == pc = "rendered" => C19_StyleFidelity

RECURSIVE SubwordSuppressed(_, _, _, _)
\* subword n of the word is shown without its reading: one of its kanji has a
\* positive entry in the table the word started with, or was glossed in an
\* earlier subword of the same word (which leaves an entry when skipLen > 0)
SubwordSuppressed(subs, n, before, skipLen) ==
  \E k \in KanjiOf(subs[n].surface) :
     \/ k \in DOMAIN before /\ before[k] > 0
     \/ /\ skipLen > 0
        /\ \E m \in 1..(n - 1) :
              /\ subs[m].furigana # <<>>
              /\ k \in KanjiOf(subs[m].surface)
              /\ ~SubwordSuppressed(subs, m, before, skipLen)

\* the subwords of the word that have a reading, in order
ReadingSubwords(subs) == SelectSeq([n \in DOMAIN subs |-> n], LAMBDA n : subs[n].furigana # <<>>)

\* C20: a word with subwords is rendered subword by subword in order; one
\* decision is taken for each subword that has a reading, against the table
\* as the earlier subwords of the same word have left it; a suppressed subword
\* is shown bare and every other subword with a reading is glossed
C20_SubwordBySubword ==
  (pc = "word" /\ Len(cur.subword) > 0) =>
    LET subs == cur.subword
        sup(n) == SubwordSuppressed(subs, n, last.skipBefore, skipLength)
        idx == ReadingSubwords(subs)
    IN  /\ result = Flatten([n \in DOMAIN subs |->
                       IF subs[n].furigana = <<>> \/ sup(n) THEN subs[n].surface
                       ELSE renderRuby(rubyStyle, subs[n].surface, subs[n].furigana)])
        /\ Len(last.decisions) = Len(idx)
        /\ \A d \in DOMAIN idx : last.decisions[d].suppressed = sup(idx[d])

\* a suppressed subword, then a glossed one, then one suppressed by that gloss
C20_Witness ==
  /\ pc = "word"
  /\ rubyStyle = "InkBracket"
  /\ cur.surface = <<"K", "J", "J">>
  /\ last.skipBefore = [k \in {"K"} |-> 2]
  /\ result = <<"K", "J", "<<", "j", ">>", "J">>
  /\ skipInfo = [k \in {"K", "J"} |-> 2]

RECURSIVE processAlone(_, _)
\* the result of the call r is in when no other call runs, given the
\* responses answers to its main requests in order
processAlone(r, answers) ==
  IF r.pc = "loop" THEN processAlone(runStartUnit(r), answers)
  ELSE IF r.pc = "test" THEN processAlone(runTestReturns(r), answers)
  ELSE IF r.pc = "main" /\ answers # <<>>
       THEN processAlone(runMainReturns(r, Head(answers), r.skipInfo), Tail(answers))
       ELSE r.result

\* what processor p returns for its text with its responses, run alone
alone(p) ==
  processAlone(runCall(newRun(runs[p].skipLength, runs[p].rubyStyle, runs[p].maxLength),
                       runs[p].text),
               runs[p].answers)

returnedWithoutFailure ==
  processAlone(runCall(newRun(skipLength, rubyStyle, maxLength), text),
               [k \in 1..Len(text) |-> [ok |-> TRUE, word |-> <<>>]])

\* C22: a call of process in which a chunk or part fell back to its text
\* hands its caller a value that tells so: it is not the value of a call on
\* the same text in which no request failed
C22_FailuresReported ==
  (pc = "done" /\ failed) => result # returnedWithoutFailure

\* C23: at the start of every call of process, a repeated call on the same
\* processor included, the SkipTable has no entry
C23_RunStartsEmpty ==
  (last.outcome \in {"none", "call"} /\ pc \in {"loop", "done"}) => skipInfo = EmptySkip

\* the first call on a processor does start with an empty table
FirstRunStartsEmpty ==
  (last.outcome = "none" /\ pc \in {"loop", "done"}) => skipInfo = EmptySkip

\* every SkipTable entry lies between 0 and the configured skip length
EntriesInRange == \A k \in DOMAIN skipInfo : skipInfo[k] \in 0..skipLength

ProcessKeepsEntriesInRange == pc \in {"idle", "loop", "test", "main", "done"} => EntriesInRange

\* C25: a word of the response whose surface is not found at or after the
\* cursor leaves the SkipTable as it was
C25_MissLeavesTable ==
  last.outcome = "ok" =>
    \A n \in DOMAIN last.steps :
       ~last.steps[n].found => last.steps[n].skipAfter = last.steps[n].skipBefore

C27_NoReadingNoChange == pc = "done" => result = text

\* a text with two markers next to each other at its start, whose only
\* request was answered with words without a reading
C27_Witness ==
  /\ pc = "done"
  /\ ~failed
  /\ text = Marker \o Marker \o <<"K">>
  /\ maxLength = DefaultMaxLength
  /\ last.outcome = "ok"
  /\ last.nwords > 0

\* C28: a call of process sends one request to the endpoint for every chunk
\* or part that is not blank, with the chunk or part as its text, and no other
\* request
C28_OneRequestPerChunk ==
  pc = "done" => [n \in DOMAIN sent |-> sent[n].text] = UnitsToSend(chunks)

\* the requests of requestFurigana alone are one for every chunk or part that
\* is not blank, in order, none of them sent twice
OneMainRequestPerChunk ==
  pc = "done" => [n \in DOMAIN MainRequests |-> MainRequests[n].text] = UnitsToSend(chunks)

\* the number of requests of a kind sent so far
Requests(kind) == Len(SelectSeq(sent, LAMBDA r : r.kind = kind))

\* C29: a chunk or part that is empty or holds only spaces is copied to the
\* output as it is, no request is sent for it and it leaves the SkipTable as
\* it was; the marker after it is written, so that an empty part between two
\* markers leaves the two markers next to each other in the output (stated
\* for the state in which the iteration of the chunk or part has ended)
C29_BlankChunkCopied ==
  ( /\ pc \in {"loop", "done"}
    /\ last.outcome \notin {"none", "call"}
    /\ \A p \in 1..Len(last.raw) : last.raw[p] = " " ) =>
    /\ last.outcome \in {"blank", "empty"}
    /\ last.out = last.raw
    /\ last.skipAfter = last.skipBefore
    /\ \A n \in DOMAIN sent : sent[n].from # last.from
    /\ Requests("test") = Requests("main")
    /\ EndsWith(result, last.raw \o (IF last.markerAfter THEN Marker ELSE <<>>))
    /\ ( /\ last.raw = <<>>
         /\ last.markerAfter
         /\ last.from >= Len(Marker)
         /\ substring(text, last.from - Len(Marker), last.from) = Marker )
       => EndsWith(result, Marker \o Marker)

\* a second call on a processor that holds K in its table: a part of one space
\* is copied, the table is the same after the part, and the marker that
\* follows the part then empties it
C29_Witness ==
  /\ pc = "loop"
  /\ last.outcome = "blank"
  /\ last.raw = <<" ">>
  /\ last.markerAfter
  /\ last.skipBefore = [k \in {"K"} |-> 1]
  /\ last.skipAfter = last.skipBefore
  /\ skipInfo = EmptySkip
  /\ result = <<" ">> \o Marker

\* C30: for a byte budget of at least 1 the character loop returns no empty
\* chunk, and for the empty text it returns no chunk
C30_NoEmptyChunk ==
  (pc = "split" /\ maxLength >= 1) =>
    /\ \A n \in DOMAIN chunks : chunks[n] # <<>>
    /\ text = <<>> => chunks = <<>>

\* the same for the budgets that hold every character of the text
NoEmptyChunkWhenCharactersFit ==
  (pc = "split" /\ \A p \in 1..Len(text) : utf8Len(text[p]) <= maxLength) =>
    /\ \A n \in DOMAIN chunks : chunks[n] # <<>>
    /\ text = <<>> => chunks = <<>>

====
